---- MODULE Spec2Model ----
(***************************************************************************)
(* Model of stack.py, the Cloud Foundry stack usage exporter.              *)
(*                                                                         *)
(* Three kinds of threads share the module globals of stack.py:            *)
(*   - the main thread (the __main__ block): start-up, then app.run;        *)
(*   - the refresh loop (generate_stack_metrics), a daemon thread;          *)
(*   - one thread per /metrics request (metrics), Flask's server being      *)
(*     threaded.                                                            *)
(* A Python dict is a sequence of <<key, value>> pairs in insertion order   *)
(* (the order dict iteration follows); its content is the set of its pairs. *)
(* The gauge registry is the set of <<label, value>> pairs it would render. *)
(*                                                                         *)
(* Spec       start-up and the refresh loop against every answer the       *)
(*            upstream API can give; no scrape request arrives.            *)
(* FairSpec   Spec, the refresh thread being scheduled again and again.    *)
(* ServeSpec  start-up, the refresh loop and concurrent scrape requests,   *)
(*            against an upstream that answers with one page out of two    *)
(*            bodies or fails.                                             *)
(* FairServe  ServeSpec with every thread scheduled and the lock granted.  *)
(* TracedSpec start-up, a refresh loop whose discovery succeeds, and       *)
(*            concurrent scrape requests, with the history of the gauge.   *)
(* CrawlSpec  start-up and a refresh loop whose discovery succeeds, against *)
(*            every page the upstream API can give.                        *)
(***************************************************************************)
EXTENDS Integers, Sequences, FiniteSets, TLC

VARIABLES
    main_pc,                 \* position of the __main__ block
    INCLUDE_INVALID_STACKS,  \* line 61
    CF_AUTH_TOKEN,           \* line 53: 0 is "", n > 0 the n-th token value
    valid_stacks,            \* line 70: list of names
    stack_cache,             \* line 68: the Snapshot (a dict)
    cache_lock,              \* line 69: "free", "loop" or the scrape holding it
    stack_gauge,             \* line 65: rendered <<label, value>> pairs
    loop_pc,                 \* position of generate_stack_metrics
    stack_counts,            \* line 143 (a dict)
    apps_count,              \* line 144 / 178: total_pages once discovered
    retries,                 \* line 145
    futures,                 \* line 187: per page "running", "error" or a body
    responses,               \* line 187: the pages, once all fetched
    resp_i,                  \* line 189: index of the response iterated
    app_i,                   \* line 190: index of the app iterated
    scrape_pc,               \* per request: position of metrics()
    local_cache,             \* per request: line 212 / 215 (a dict)
    item_i,                  \* per request: line 217, index of the item iterated
    reqs,                    \* history: discovery requests issued this cycle
    prev_outcome,            \* history: outcome of the last discovery attempt
    logins_since,            \* history: get_token calls since that attempt
    cache_at_start,          \* history: stack_cache when the cycle began
    overlapped,              \* history, per request: another request ran meanwhile
    completed,               \* history: contents of the aggregates published
    newer,                   \* history, per request: requests that copied after it
    stale,                   \* history, per request: labels set since from a newer copy
    overwritten,             \* history: labels changed by a request holding an older copy
    pub_phase,               \* history: 0 nothing published, 1 published, 2 published again
    first_out,               \* history: responses to requests that copied in phase 1
    made_in                  \* history, per request: phase in which it copied

vars ==
    << main_pc, INCLUDE_INVALID_STACKS, CF_AUTH_TOKEN, valid_stacks, stack_cache,
       cache_lock, stack_gauge, loop_pc, stack_counts, apps_count, retries,
       futures, responses, resp_i, app_i, scrape_pc, local_cache, item_i,
       reqs, prev_outcome, logins_since, cache_at_start, overlapped, completed,
       newer, stale, overwritten, pub_phase, first_out, made_in >>

mainVars ==
    << main_pc, INCLUDE_INVALID_STACKS, valid_stacks >>

loopLocals ==
    << stack_counts, apps_count, retries, futures, responses, resp_i, app_i >>

scrapeVars ==
    << scrape_pc, local_cache, item_i, stack_gauge, overlapped >>

discoveryHistory ==
    << reqs, prev_outcome, logins_since >>

gaugeHistory ==
    << newer, stale, overwritten, pub_phase, first_out, made_in >>

(***************************************************************************)
(* Bounds and program constants.                                           *)
(***************************************************************************)
MaxPages ==
    2

NumTokens ==
    2

ReqCap ==
    6

MAX_RETRIES ==
    5

Tokens ==
    1..NumTokens

Scrapers ==
    {"s1", "s2"}

(***************************************************************************)
(* Values of the upstream API.                                             *)
(***************************************************************************)
None ==
    "<None>"

MalformedApp ==
    "<malformed>"

BodyA ==
    << "cflinuxfs4", "cflinuxfs4", "bogus-stack" >>

BodyB ==
    << "windows2016", "cflinuxfs4" >>

\* A record whose stack field holds the JSON number 7 instead of a name.
NumberStack ==
    "<number 7>"

BodyC ==
    << None, "", NumberStack >>

BodyD ==
    << "cflinuxfs4", MalformedApp >>

PageBodies ==
    {BodyA, BodyB, BodyC, BodyD}

PageCounts ==
    0..MaxPages

StackListings ==
    { << "cflinuxfs4", "windows2016" >>, << "cflinuxfs4" >> }

ServeBodies ==
    { << "cflinuxfs4", "windows2016" >>, << "cflinuxfs4", "cflinuxfs4", "bogus-stack" >> }

ServePageCounts ==
    {1}

ServeListings ==
    { << "cflinuxfs4", "windows2016" >> }

(***************************************************************************)
(* Python dicts and the gauge.                                             *)
(***************************************************************************)
Range(s) ==
    {s[i] : i \in DOMAIN s}

Items(d) ==
    Range(d)

Keys(d) ==
    {d[i][1] : i \in DOMAIN d}

DictGet(d, k, default) ==
    IF k \in Keys(d)
    THEN (CHOOSE p \in Range(d) : p[1] = k)[2]
    ELSE default

DictSet(d, k, v) ==
    IF k \in Keys(d)
    THEN [i \in DOMAIN d |-> IF d[i][1] = k THEN << k, v >> ELSE d[i]]
    ELSE Append(d, << k, v >>)

\* Mutant: the gauge is incremented instead of set.
GaugeInc(g, k, v) ==
    {p \in g : p[1] # k} \cup
    {<< k, v + (IF k \in {p[1] : p \in g} THEN (CHOOSE p \in g : p[1] = k)[2] ELSE 0) >>}

GaugeSet(g, k, v) ==
    {p \in g : p[1] # k} \cup {<< k, v >>}

Labels(g) ==
    {p[1] : p \in g}

(***************************************************************************)
(* Aggregation rule, lines 191-196.                                        *)
(***************************************************************************)
Truthy(stack) ==
    stack \notin {None, ""}

\* Mutant: the membership test of line 193 is left out.
PassesAny(stack, include, valid) ==
    Truthy(stack)

Passes(stack, include, valid) ==
    Truthy(stack) /\ (include \/ stack \in Range(valid))

\* Mutant: line 194 forgets the count so far.
CountAppForgets(counts, stack, include, valid) ==
    IF Truthy(stack) /\ (include \/ stack \in Range(valid))
    THEN DictSet(counts, stack, 1)
    ELSE counts

\* Mutant: only a record that follows the key inserted last adds to it.
CountAppRuns(counts, stack, include, valid) ==
    IF Truthy(stack) /\ (include \/ stack \in Range(valid))
    THEN IF counts # << >> /\ counts[Len(counts)][1] = stack
         THEN DictSet(counts, stack, DictGet(counts, stack, 0) + 1)
         ELSE DictSet(counts, stack, 1)
    ELSE counts

CountApp(counts, stack, include, valid) ==
    IF Passes(stack, include, valid)
    THEN DictSet(counts, stack, DictGet(counts, stack, 0) + 1)
    ELSE counts

\* Lines 190-196 for one response, from record i on.
RECURSIVE AggregateRecords(_, _, _, _, _)
AggregateRecords(counts, page, i, include, valid) ==
    IF i > Len(page)
    THEN counts
    ELSE AggregateRecords(CountApp(counts, page[i], include, valid),
                          page, i + 1, include, valid)

\* Lines 189-196 for the list of responses, from response p on.
RECURSIVE AggregatePages(_, _, _, _, _)
AggregatePages(counts, pages, p, include, valid) ==
    IF p > Len(pages)
    THEN counts
    ELSE AggregatePages(AggregateRecords(counts, pages[p], 1, include, valid),
                        pages, p + 1, include, valid)

(***************************************************************************)
(* Initial state: the module globals as lines 36-70 leave them.  The       *)
(* locals of generate_stack_metrics and of metrics() do not exist yet and  *)
(* are given the values their first assignment gives them.                 *)
(***************************************************************************)
Init ==
    /\ main_pc = "validate"
    /\ INCLUDE_INVALID_STACKS \in BOOLEAN
    /\ CF_AUTH_TOKEN = 0
    /\ valid_stacks = << >>
    /\ stack_cache = << >>
    /\ cache_lock = "free"
    /\ stack_gauge = {}
    /\ loop_pc = "not_started"
    /\ stack_counts = << >>
    /\ apps_count = 0
    /\ retries = 0
    /\ futures = << >>
    /\ responses = << >>
    /\ resp_i = 0
    /\ app_i = 0
    /\ scrape_pc = [t \in Scrapers |-> "idle"]
    /\ local_cache = [t \in Scrapers |-> << >>]
    /\ item_i = [t \in Scrapers |-> 0]
    /\ reqs = 0
    /\ prev_outcome = "none"
    /\ logins_since = 0
    /\ cache_at_start = << >>
    /\ overlapped = [t \in Scrapers |-> FALSE]
    /\ completed = {}
    /\ newer = [t \in Scrapers |-> {}]
    /\ stale = [t \in Scrapers |-> {}]
    /\ overwritten = {}
    /\ pub_phase = 0
    /\ first_out = {}
    /\ made_in = [t \in Scrapers |-> 0]

(***************************************************************************)
(* The __main__ block, lines 223-232.  An exception or sys.exit(1) in any  *)
(* step ends the process before line 231 is reached.                       *)
(***************************************************************************)
loopVars ==
    << loop_pc, stack_cache, cache_lock, cache_at_start, completed >>

ValidateOk ==
    /\ main_pc = "validate"
    /\ main_pc' = "get_uaa"
    /\ UNCHANGED << INCLUDE_INVALID_STACKS, valid_stacks, CF_AUTH_TOKEN >>
    /\ UNCHANGED << loopVars, loopLocals, scrapeVars, discoveryHistory >>
    /\ UNCHANGED gaugeHistory

ValidateMissing ==
    /\ main_pc = "validate"
    /\ main_pc' = "exited"
    /\ UNCHANGED << INCLUDE_INVALID_STACKS, valid_stacks, CF_AUTH_TOKEN >>
    /\ UNCHANGED << loopVars, loopLocals, scrapeVars, discoveryHistory >>
    /\ UNCHANGED gaugeHistory

UaaOk ==
    /\ main_pc = "get_uaa"
    /\ main_pc' = "get_token"
    /\ UNCHANGED << INCLUDE_INVALID_STACKS, valid_stacks, CF_AUTH_TOKEN >>
    /\ UNCHANGED << loopVars, loopLocals, scrapeVars, discoveryHistory >>
    /\ UNCHANGED gaugeHistory

UaaFail ==
    /\ main_pc = "get_uaa"
    /\ main_pc' = "exited"
    /\ UNCHANGED << INCLUDE_INVALID_STACKS, valid_stacks, CF_AUTH_TOKEN >>
    /\ UNCHANGED << loopVars, loopLocals, scrapeVars, discoveryHistory >>
    /\ UNCHANGED gaugeHistory

\* get_token, lines 105-126: the token is assigned only after raise_for_status.
get_token_ok(tok) ==
    CF_AUTH_TOKEN' = tok

\* Mutant: a failed login wipes the token.
get_token_err_clears ==
    CF_AUTH_TOKEN' = 0

get_token_err ==
    CF_AUTH_TOKEN' = CF_AUTH_TOKEN

StartupLoginOk ==
    /\ main_pc = "get_token"
    /\ \E tok \in Tokens : get_token_ok(tok)
    /\ main_pc' = IF INCLUDE_INVALID_STACKS THEN "start" ELSE "grab"
    /\ logins_since' = logins_since + 1
    /\ UNCHANGED << INCLUDE_INVALID_STACKS, valid_stacks, reqs, prev_outcome >>
    /\ UNCHANGED << loopVars, loopLocals, scrapeVars >>
    /\ UNCHANGED gaugeHistory

StartupLoginFail ==
    /\ main_pc = "get_token"
    /\ get_token_err
    /\ main_pc' = "exited"
    /\ logins_since' = logins_since + 1
    /\ UNCHANGED << INCLUDE_INVALID_STACKS, valid_stacks, reqs, prev_outcome >>
    /\ UNCHANGED << loopVars, loopLocals, scrapeVars >>
    /\ UNCHANGED gaugeHistory

\* grab_valid_stacks, lines 89-102: every listed name is appended.
GrabOk(listings) ==
    /\ main_pc = "grab"
    /\ \E listing \in listings : valid_stacks' = valid_stacks \o listing
    /\ main_pc' = "start"
    /\ UNCHANGED << INCLUDE_INVALID_STACKS, CF_AUTH_TOKEN >>
    /\ UNCHANGED << loopVars, loopLocals, scrapeVars, discoveryHistory >>
    /\ UNCHANGED gaugeHistory

\* Mutant: a failed listing is ignored and start-up goes on.
GrabFailIgnored ==
    /\ main_pc = "grab"
    /\ main_pc' = "start"
    /\ UNCHANGED << INCLUDE_INVALID_STACKS, valid_stacks, CF_AUTH_TOKEN >>
    /\ UNCHANGED << loopVars, loopLocals, scrapeVars, discoveryHistory >>
    /\ UNCHANGED gaugeHistory

GrabFail ==
    /\ main_pc = "grab"
    /\ main_pc' = "exited"
    /\ UNCHANGED << INCLUDE_INVALID_STACKS, valid_stacks, CF_AUTH_TOKEN >>
    /\ UNCHANGED << loopVars, loopLocals, scrapeVars, discoveryHistory >>
    /\ UNCHANGED gaugeHistory

\* Lines 231-232: the refresh thread starts, then the server listens.
StartThreads ==
    /\ main_pc = "start"
    /\ main_pc' = "serving"
    /\ loop_pc' = "cycle_start"
    /\ UNCHANGED << INCLUDE_INVALID_STACKS, valid_stacks, CF_AUTH_TOKEN >>
    /\ UNCHANGED << stack_cache, cache_lock, cache_at_start, completed >>
    /\ UNCHANGED << loopLocals, scrapeVars, discoveryHistory >>
    /\ UNCHANGED gaugeHistory

(***************************************************************************)
(* generate_stack_metrics, lines 138-208.                                  *)
(***************************************************************************)
Running(p) ==
    futures[p].st = "running"

\* Lines 142-145.  `responses` is dead until line 187 rebinds it, so it is
\* dropped here; the history of the cycle starts afresh.
CycleStart ==
    /\ loop_pc = "cycle_start"
    /\ loop_pc' = "discover"
    /\ stack_counts' = << >>
    /\ apps_count' = 0
    /\ retries' = 0
    /\ responses' = << >>
    /\ resp_i' = 0
    /\ app_i' = 0
    /\ reqs' = 0
    /\ cache_at_start' = stack_cache
    /\ UNCHANGED << futures, prev_outcome, logins_since, completed >>
    /\ UNCHANGED << mainVars, scrapeVars, CF_AUTH_TOKEN, stack_cache, cache_lock >>
    /\ UNCHANGED gaugeHistory

\* Mutant: giving up empties the Snapshot.
RetriesExhaustedClears ==
    /\ loop_pc = "discover"
    /\ apps_count = 0
    /\ retries >= MAX_RETRIES
    /\ loop_pc' = "fail_sleep"
    /\ stack_cache' = << >>
    /\ UNCHANGED << loopLocals, discoveryHistory, cache_at_start, completed >>
    /\ UNCHANGED << mainVars, scrapeVars, CF_AUTH_TOKEN, cache_lock >>
    /\ UNCHANGED gaugeHistory

\* Lines 147-150: the retry budget is spent.
RetriesExhausted ==
    /\ loop_pc = "discover"
    /\ apps_count = 0
    /\ retries >= MAX_RETRIES
    /\ loop_pc' = "fail_sleep"
    /\ UNCHANGED << loopLocals, discoveryHistory, cache_at_start, completed >>
    /\ UNCHANGED << mainVars, scrapeVars, CF_AUTH_TOKEN, stack_cache, cache_lock >>
    /\ UNCHANGED gaugeHistory

\* Lines 147-152: the GET of /v3/apps is sent.
DiscoverIssue ==
    /\ loop_pc = "discover"
    /\ apps_count = 0
    /\ retries < MAX_RETRIES
    /\ loop_pc' = "discover_wait"
    /\ reqs' = IF reqs < ReqCap THEN reqs + 1 ELSE reqs
    /\ UNCHANGED << loopLocals, prev_outcome, logins_since, cache_at_start, completed >>
    /\ UNCHANGED << mainVars, scrapeVars, CF_AUTH_TOKEN, stack_cache, cache_lock >>
    /\ UNCHANGED gaugeHistory

\* What every answer to the discovery request leaves alone.
DiscoverFrame ==
    /\ logins_since' = 0
    /\ UNCHANGED << reqs, cache_at_start, completed >>
    /\ UNCHANGED << stack_counts, retries, futures, responses, resp_i, app_i >>
    /\ UNCHANGED << mainVars, scrapeVars, CF_AUTH_TOKEN, stack_cache, cache_lock >>
    /\ UNCHANGED gaugeHistory

\* Lines 152, 177-179: a JSON object with pagination.total_pages = n.
DiscoverOk(counts) ==
    /\ loop_pc = "discover_wait"
    /\ \E n \in counts : apps_count' = n
    /\ loop_pc' = "submit"
    /\ prev_outcome' = "ok"
    /\ DiscoverFrame

\* Lines 152, 147: a 2xx answer whose JSON body equals 0 (0, 0.0, false)
\* leaves `apps_count == 0` true: the loop goes round without a sleep and
\* without counting a retry.
DiscoverZero ==
    /\ loop_pc = "discover_wait"
    /\ apps_count' = 0
    /\ loop_pc' = "discover"
    /\ prev_outcome' = "zero"
    /\ DiscoverFrame

\* Lines 177-178, 182: any other JSON body has no pagination.total_pages
\* that range() accepts; the error reaches line 202.
DiscoverMalformed ==
    /\ loop_pc = "discover_wait"
    /\ loop_pc' = "fail_sleep"
    /\ prev_outcome' = "malformed"
    /\ UNCHANGED apps_count
    /\ DiscoverFrame

\* Lines 153-158: a RequestException without a response.
DiscoverTransportErr ==
    /\ loop_pc = "discover_wait"
    /\ loop_pc' = "retry_sleep"
    /\ prev_outcome' = "transport"
    /\ UNCHANGED apps_count
    /\ DiscoverFrame

\* Mutant: a 401 or 403 is retried without a login.
DiscoverAuthErrNoLogin ==
    /\ loop_pc = "discover_wait"
    /\ loop_pc' = "retry_sleep"
    /\ prev_outcome' = "auth"
    /\ UNCHANGED apps_count
    /\ DiscoverFrame

\* Lines 159-161: HTTP 401 or 403; get_token is called.
DiscoverAuthErr ==
    /\ loop_pc = "discover_wait"
    /\ loop_pc' = "relogin"
    /\ prev_outcome' = "auth"
    /\ logins_since' = 1
    /\ UNCHANGED << apps_count, reqs, cache_at_start, completed >>
    /\ UNCHANGED << stack_counts, retries, futures, responses, resp_i, app_i >>
    /\ UNCHANGED << mainVars, scrapeVars, CF_AUTH_TOKEN, stack_cache, cache_lock >>
    /\ UNCHANGED gaugeHistory

\* Lines 165-169: any other HTTP error status.
DiscoverHttpErr ==
    /\ loop_pc = "discover_wait"
    /\ loop_pc' = "retry_sleep"
    /\ prev_outcome' = "http"
    /\ UNCHANGED apps_count
    /\ DiscoverFrame

\* Lines 170-174: an exception that is no RequestException.
DiscoverOtherErr ==
    /\ loop_pc = "discover_wait"
    /\ loop_pc' = "retry_sleep"
    /\ prev_outcome' = "other"
    /\ UNCHANGED apps_count
    /\ DiscoverFrame

\* Line 161 returns: the token is replaced, line 162 sleeps.
ReloginOk ==
    /\ loop_pc = "relogin"
    /\ \E tok \in Tokens : get_token_ok(tok)
    /\ loop_pc' = "retry_sleep"
    /\ UNCHANGED << loopLocals, discoveryHistory, cache_at_start, completed >>
    /\ UNCHANGED << mainVars, scrapeVars, stack_cache, cache_lock >>
    /\ UNCHANGED gaugeHistory

\* Line 161 raises inside the except clause: the error reaches line 202.
ReloginFail ==
    /\ loop_pc = "relogin"
    /\ get_token_err
    /\ loop_pc' = "fail_sleep"
    /\ UNCHANGED << loopLocals, discoveryHistory, cache_at_start, completed >>
    /\ UNCHANGED << mainVars, scrapeVars, stack_cache, cache_lock >>
    /\ UNCHANGED gaugeHistory

\* Lines 156-158, 162-164, 167-169, 172-174: the 5 s sleep ends.
RetrySleepDone ==
    /\ loop_pc = "retry_sleep"
    /\ retries' = retries + 1
    /\ loop_pc' = "discover"
    /\ UNCHANGED << stack_counts, apps_count, futures, responses, resp_i, app_i >>
    /\ UNCHANGED << discoveryHistory, cache_at_start, completed >>
    /\ UNCHANGED << mainVars, scrapeVars, CF_AUTH_TOKEN, stack_cache, cache_lock >>
    /\ UNCHANGED gaugeHistory

\* Lines 181-187: one request per page is handed to the pool, which has a
\* worker for each of them (min(32, cpus + 4) > MaxPages).
Submit ==
    /\ loop_pc = "submit"
    /\ futures' = [p \in 1..apps_count |-> [st |-> "running", body |-> << >>]]
    /\ loop_pc' = "join"
    /\ UNCHANGED << stack_counts, apps_count, retries, responses, resp_i, app_i >>
    /\ UNCHANGED << discoveryHistory, cache_at_start, completed >>
    /\ UNCHANGED << mainVars, scrapeVars, CF_AUTH_TOKEN, stack_cache, cache_lock >>
    /\ UNCHANGED gaugeHistory

\* Lines 129-135 in a worker: a page arrives.
FetchOk(bodies) ==
    /\ loop_pc = "join"
    /\ \E p \in DOMAIN futures : \E b \in bodies :
          /\ Running(p)
          /\ futures' = [futures EXCEPT ![p] = [st |-> "ok", body |-> b]]
    /\ UNCHANGED << stack_counts, apps_count, retries, responses, resp_i, app_i >>
    /\ UNCHANGED << loop_pc, discoveryHistory, cache_at_start, completed >>
    /\ UNCHANGED << mainVars, scrapeVars, CF_AUTH_TOKEN, stack_cache, cache_lock >>
    /\ UNCHANGED gaugeHistory

\* Lines 129-135 in a worker: the request or raise_for_status raises.
FetchErr ==
    /\ loop_pc = "join"
    /\ \E p \in DOMAIN futures :
          /\ Running(p)
          /\ futures' = [futures EXCEPT ![p] = [st |-> "error", body |-> << >>]]
    /\ UNCHANGED << stack_counts, apps_count, retries, responses, resp_i, app_i >>
    /\ UNCHANGED << loop_pc, discoveryHistory, cache_at_start, completed >>
    /\ UNCHANGED << mainVars, scrapeVars, CF_AUTH_TOKEN, stack_cache, cache_lock >>
    /\ UNCHANGED gaugeHistory

\* Lines 186-187: every page arrived; the with block is left.
JoinOk ==
    /\ loop_pc = "join"
    /\ \A p \in DOMAIN futures : futures[p].st = "ok"
    /\ responses' = [p \in DOMAIN futures |-> futures[p].body]
    /\ futures' = << >>
    /\ resp_i' = 1
    /\ app_i' = 1
    /\ loop_pc' = "aggregate"
    /\ UNCHANGED << stack_counts, apps_count, retries >>
    /\ UNCHANGED << discoveryHistory, cache_at_start, completed >>
    /\ UNCHANGED << mainVars, scrapeVars, CF_AUTH_TOKEN, stack_cache, cache_lock >>
    /\ UNCHANGED gaugeHistory

\* Mutant: a page error ends the cycle while other pages are in flight.
JoinErrEarly ==
    /\ loop_pc = "join"
    /\ \E p \in DOMAIN futures : futures[p].st = "error"
    /\ loop_pc' = "fail_sleep"
    /\ UNCHANGED << loopLocals, discoveryHistory, cache_at_start, completed >>
    /\ UNCHANGED << mainVars, scrapeVars, CF_AUTH_TOKEN, stack_cache, cache_lock >>
    /\ UNCHANGED gaugeHistory

\* Mutant: after a page error the pages are requested again.
JoinErrResubmits ==
    /\ loop_pc = "join"
    /\ \A p \in DOMAIN futures : ~Running(p)
    /\ \E p \in DOMAIN futures : futures[p].st = "error"
    /\ futures' = << >>
    /\ loop_pc' = "submit"
    /\ UNCHANGED << stack_counts, apps_count, retries, responses, resp_i, app_i >>
    /\ UNCHANGED << discoveryHistory, cache_at_start, completed >>
    /\ UNCHANGED << mainVars, scrapeVars, CF_AUTH_TOKEN, stack_cache, cache_lock >>
    /\ UNCHANGED gaugeHistory

\* Lines 186-187, 202: list() re-raises a worker's error; leaving the with
\* block waits for every worker first.
JoinErr ==
    /\ loop_pc = "join"
    /\ \A p \in DOMAIN futures : ~Running(p)
    /\ \E p \in DOMAIN futures : futures[p].st = "error"
    /\ futures' = << >>
    /\ loop_pc' = "fail_sleep"
    /\ UNCHANGED << stack_counts, apps_count, retries, responses, resp_i, app_i >>
    /\ UNCHANGED << discoveryHistory, cache_at_start, completed >>
    /\ UNCHANGED << mainVars, scrapeVars, CF_AUTH_TOKEN, stack_cache, cache_lock >>
    /\ UNCHANGED gaugeHistory

\* Mutant: the aggregate is built in the published dict itself.
AggregateAppInPlace ==
    /\ loop_pc = "aggregate"
    /\ resp_i <= Len(responses)
    /\ app_i <= Len(responses[resp_i])
    /\ responses[resp_i][app_i] # MalformedApp
    /\ stack_counts' = CountApp(stack_counts, responses[resp_i][app_i],
                                INCLUDE_INVALID_STACKS, valid_stacks)
    /\ stack_cache' = stack_counts'
    /\ app_i' = app_i + 1
    /\ UNCHANGED << apps_count, retries, futures, responses, resp_i >>
    /\ UNCHANGED << loop_pc, discoveryHistory, cache_at_start, completed >>
    /\ UNCHANGED << mainVars, scrapeVars, CF_AUTH_TOKEN, cache_lock >>
    /\ UNCHANGED gaugeHistory

\* Lines 190-196: one application record is counted or skipped.
AggregateApp ==
    /\ loop_pc = "aggregate"
    /\ resp_i <= Len(responses)
    /\ app_i <= Len(responses[resp_i])
    /\ responses[resp_i][app_i] # MalformedApp
    /\ stack_counts' = CountApp(stack_counts, responses[resp_i][app_i],
                                INCLUDE_INVALID_STACKS, valid_stacks)
    /\ app_i' = app_i + 1
    /\ UNCHANGED << apps_count, retries, futures, responses, resp_i >>
    /\ UNCHANGED << loop_pc, discoveryHistory, cache_at_start, completed >>
    /\ UNCHANGED << mainVars, scrapeVars, CF_AUTH_TOKEN, stack_cache, cache_lock >>
    /\ UNCHANGED gaugeHistory

\* Line 191: a record whose lifecycle or data is no mapping raises.
AggregateMalformed ==
    /\ loop_pc = "aggregate"
    /\ resp_i <= Len(responses)
    /\ app_i <= Len(responses[resp_i])
    /\ responses[resp_i][app_i] = MalformedApp
    /\ loop_pc' = "fail_sleep"
    /\ UNCHANGED << loopLocals, discoveryHistory, cache_at_start, completed >>
    /\ UNCHANGED << mainVars, scrapeVars, CF_AUTH_TOKEN, stack_cache, cache_lock >>
    /\ UNCHANGED gaugeHistory

\* Line 189: the records of a response are exhausted.
NextResponse ==
    /\ loop_pc = "aggregate"
    /\ resp_i <= Len(responses)
    /\ app_i > Len(responses[resp_i])
    /\ resp_i' = resp_i + 1
    /\ app_i' = 1
    /\ UNCHANGED << stack_counts, apps_count, retries, futures, responses >>
    /\ UNCHANGED << loop_pc, discoveryHistory, cache_at_start, completed >>
    /\ UNCHANGED << mainVars, scrapeVars, CF_AUTH_TOKEN, stack_cache, cache_lock >>
    /\ UNCHANGED gaugeHistory

\* Lines 198-199: the lock is taken.
PublishAcquire ==
    /\ loop_pc = "aggregate"
    /\ resp_i > Len(responses)
    /\ cache_lock = "free"
    /\ cache_lock' = "loop"
    /\ loop_pc' = "assign"
    /\ UNCHANGED << loopLocals, discoveryHistory, cache_at_start, completed >>
    /\ UNCHANGED << mainVars, scrapeVars, CF_AUTH_TOKEN, stack_cache >>
    /\ UNCHANGED gaugeHistory

\* Line 200: the global is rebound to the dict just built.
PublishAssign ==
    /\ loop_pc = "assign"
    /\ stack_cache' = stack_counts
    /\ loop_pc' = "release"
    /\ UNCHANGED << loopLocals, discoveryHistory, cache_at_start >>
    /\ UNCHANGED << mainVars, scrapeVars, CF_AUTH_TOKEN, cache_lock >>

\* Mutant: the lock is not released.
PublishKeepsLock ==
    /\ loop_pc = "release"
    /\ loop_pc' = "interval_sleep"
    /\ UNCHANGED << loopLocals, discoveryHistory, cache_at_start, completed >>
    /\ UNCHANGED << mainVars, scrapeVars, CF_AUTH_TOKEN, stack_cache, cache_lock >>
    /\ UNCHANGED gaugeHistory

\* Line 200, end of the with block.
PublishRelease ==
    /\ loop_pc = "release"
    /\ cache_lock' = "free"
    /\ loop_pc' = "interval_sleep"
    /\ UNCHANGED << loopLocals, discoveryHistory, cache_at_start, completed >>
    /\ UNCHANGED << mainVars, scrapeVars, CF_AUTH_TOKEN, stack_cache >>
    /\ UNCHANGED gaugeHistory

\* Lines 207-208.
IntervalSleepDone ==
    /\ loop_pc = "interval_sleep"
    /\ loop_pc' = "cycle_start"
    /\ UNCHANGED << loopLocals, discoveryHistory, cache_at_start, completed >>
    /\ UNCHANGED << mainVars, scrapeVars, CF_AUTH_TOKEN, stack_cache, cache_lock >>
    /\ UNCHANGED gaugeHistory

\* Lines 202-205.
FailSleepDone ==
    /\ loop_pc = "fail_sleep"
    /\ loop_pc' = "cycle_start"
    /\ UNCHANGED << loopLocals, discoveryHistory, cache_at_start, completed >>
    /\ UNCHANGED << mainVars, scrapeVars, CF_AUTH_TOKEN, stack_cache, cache_lock >>
    /\ UNCHANGED gaugeHistory

(***************************************************************************)
(* The aggregate a crawl is meant to yield: for every stack name, the      *)
(* number of records over all pages that carry it and pass the filter.     *)
(***************************************************************************)
Positions(pages) ==
    UNION {{<< p, i >> : i \in DOMAIN pages[p]} : p \in DOMAIN pages}

Occurrences(pages, s) ==
    Cardinality({pos \in Positions(pages) : pages[pos[1]][pos[2]] = s})

CountAll(pages, include, valid) ==
    LET named == {pages[pos[1]][pos[2]] : pos \in Positions(pages)} \ {None, "", MalformedApp}
        kept  == IF include THEN named ELSE named \cap Range(valid)
    IN  {<< s, Occurrences(pages, s) >> : s \in kept}

\* Line 200, the history of published aggregates left alone.
Publish ==
    /\ PublishAssign
    /\ UNCHANGED << completed, gaugeHistory >>

\* Line 200, the content of the aggregate entering the history when the
\* cycle fetched and went through every page.
RecordCompleted ==
    completed' = completed \cup
          (IF Len(responses) = apps_count /\ resp_i > Len(responses)
           THEN {CountAll(responses, INCLUDE_INVALID_STACKS, valid_stacks)}
           ELSE {})

PublishRecorded ==
    /\ PublishAssign
    /\ RecordCompleted
    /\ UNCHANGED gaugeHistory

\* Line 200, the history of the gauge kept as well: publishing a dict equal
\* to the Snapshot (dict equality, whatever the insertion order) after an
\* earlier publish is a re-publication; any other publish starts afresh.
PublishTraced ==
    /\ PublishAssign
    /\ RecordCompleted
    /\ LET same == pub_phase >= 1 /\ Items(stack_counts) = Items(stack_cache)
       IN  /\ pub_phase' = IF same THEN 2 ELSE 1
           /\ first_out' = IF same THEN first_out ELSE {}
           /\ made_in' = IF same THEN made_in ELSE [t \in Scrapers |-> 0]
    /\ UNCHANGED << newer, stale, overwritten >>

(***************************************************************************)
(* metrics(), lines 210-220, for the request handled by thread t.          *)
(***************************************************************************)
\* Line 212.
ScrapeBegin(t) ==
    /\ main_pc = "serving"
    /\ scrape_pc[t] = "idle"
    /\ scrape_pc' = [scrape_pc EXCEPT ![t] = "acquire"]
    /\ local_cache' = [local_cache EXCEPT ![t] = << >>]
    /\ overlapped' = [u \in Scrapers |->
                        IF u = t
                        THEN \E v \in Scrapers \ {t} : scrape_pc[v] # "idle"
                        ELSE overlapped[u] \/ scrape_pc[u] # "idle"]
    /\ UNCHANGED << item_i, stack_gauge >>
    /\ UNCHANGED << mainVars, loopVars, loopLocals, discoveryHistory, CF_AUTH_TOKEN >>
    /\ UNCHANGED gaugeHistory

\* Line 214.
ScrapeAcquire(t) ==
    /\ scrape_pc[t] = "acquire"
    /\ cache_lock = "free"
    /\ cache_lock' = t
    /\ scrape_pc' = [scrape_pc EXCEPT ![t] = "copy"]
    /\ UNCHANGED << local_cache, item_i, stack_gauge, overlapped >>
    /\ UNCHANGED << loop_pc, stack_cache, cache_at_start, completed >>
    /\ UNCHANGED << mainVars, loopLocals, discoveryHistory, CF_AUTH_TOKEN >>
    /\ UNCHANGED gaugeHistory

\* Line 215 and the end of the with block.
CopyUnderLock(t) ==
    /\ scrape_pc[t] = "copy"
    /\ local_cache' = [local_cache EXCEPT ![t] = stack_cache]
    /\ cache_lock' = "free"
    /\ item_i' = [item_i EXCEPT ![t] = 1]
    /\ scrape_pc' = [scrape_pc EXCEPT ![t] = "set"]
    /\ UNCHANGED << stack_gauge, overlapped >>
    /\ UNCHANGED << loop_pc, stack_cache, cache_at_start, completed >>
    /\ UNCHANGED << mainVars, loopLocals, discoveryHistory, CF_AUTH_TOKEN >>

ScrapeCopy(t) ==
    /\ CopyUnderLock(t)
    /\ UNCHANGED gaugeHistory

\* Line 215, the history kept: this copy is newer than the copy of every
\* request that is setting labels, no label was set from a newer one yet,
\* and the copy is taken in the current phase of publication.
ScrapeCopyTraced(t) ==
    /\ CopyUnderLock(t)
    /\ newer' = [u \in Scrapers |->
                    IF u = t THEN {}
                    ELSE IF scrape_pc[u] = "set" THEN newer[u] \cup {t} ELSE newer[u]]
    /\ stale' = [stale EXCEPT ![t] = {}]
    /\ made_in' = [made_in EXCEPT ![t] = pub_phase]
    /\ UNCHANGED << overwritten, pub_phase, first_out >>

\* Lines 217-218: one label of the shared gauge is set.
SetLabel(t) ==
    /\ scrape_pc[t] = "set"
    /\ item_i[t] <= Len(local_cache[t])
    /\ stack_gauge' = GaugeSet(stack_gauge, local_cache[t][item_i[t]][1],
                               local_cache[t][item_i[t]][2])
    /\ item_i' = [item_i EXCEPT ![t] = item_i[t] + 1]
    /\ UNCHANGED << scrape_pc, local_cache, overlapped >>
    /\ UNCHANGED << mainVars, loopVars, loopLocals, discoveryHistory, CF_AUTH_TOKEN >>

ScrapeSet(t) ==
    /\ SetLabel(t)
    /\ UNCHANGED gaugeHistory

\* Lines 217-218, the history kept: for every request that holds an older
\* copy the label is now set from a newer one; setting a label to another
\* value from a copy older than the one it was set from is recorded.
ScrapeSetTraced(t) ==
    /\ SetLabel(t)
    /\ LET k == local_cache[t][item_i[t]][1]
           v == local_cache[t][item_i[t]][2]
       IN  /\ stale' = [u \in Scrapers |->
                           IF u # t /\ scrape_pc[u] = "set" /\ t \in newer[u]
                           THEN stale[u] \cup {k}
                           ELSE stale[u]]
           /\ overwritten' = overwritten \cup
                 (IF k \in stale[t] /\ << k, v >> \notin stack_gauge THEN {k} ELSE {})
    /\ UNCHANGED << newer, pub_phase, first_out, made_in >>

\* Thread t is at line 220: what it returns is the registry as it stands.
AtRender(t) ==
    scrape_pc[t] = "set" /\ item_i[t] > Len(local_cache[t])

Rendered ==
    stack_gauge

\* Line 220: the response is sent and the request is over.
Respond(t) ==
    /\ AtRender(t)
    /\ scrape_pc' = [scrape_pc EXCEPT ![t] = "idle"]
    /\ local_cache' = [local_cache EXCEPT ![t] = << >>]
    /\ item_i' = [item_i EXCEPT ![t] = 0]
    /\ overlapped' = [overlapped EXCEPT ![t] = FALSE]
    /\ UNCHANGED stack_gauge
    /\ UNCHANGED << mainVars, loopVars, loopLocals, discoveryHistory, CF_AUTH_TOKEN >>

ScrapeRespond(t) ==
    /\ Respond(t)
    /\ UNCHANGED gaugeHistory

\* Line 220, the history kept: the response of a request that copied after
\* a first publish is remembered.
ScrapeRespondTraced(t) ==
    /\ Respond(t)
    /\ first_out' = IF made_in[t] = 1 THEN first_out \cup {Rendered} ELSE first_out
    /\ newer' = [newer EXCEPT ![t] = {}]
    /\ stale' = [stale EXCEPT ![t] = {}]
    /\ made_in' = [made_in EXCEPT ![t] = 0]
    /\ UNCHANGED << overwritten, pub_phase >>

(***************************************************************************)
(* Specifications.                                                         *)
(***************************************************************************)
StartupNext(listings) ==
    \/ ValidateOk
    \/ ValidateMissing
    \/ UaaOk
    \/ UaaFail
    \/ StartupLoginOk
    \/ StartupLoginFail
    \/ GrabOk(listings)
    \/ GrabFail
    \/ StartThreads

LoopSteps(counts, bodies) ==
    \/ CycleStart
    \/ RetriesExhausted
    \/ DiscoverIssue
    \/ DiscoverOk(counts)
    \/ DiscoverZero
    \/ DiscoverMalformed
    \/ DiscoverTransportErr
    \/ DiscoverAuthErr
    \/ DiscoverHttpErr
    \/ DiscoverOtherErr
    \/ ReloginOk
    \/ ReloginFail
    \/ RetrySleepDone
    \/ Submit
    \/ FetchOk(bodies)
    \/ FetchErr
    \/ JoinOk
    \/ JoinErr
    \/ AggregateApp
    \/ AggregateMalformed
    \/ NextResponse
    \/ PublishAcquire
    \/ PublishRelease
    \/ IntervalSleepDone
    \/ FailSleepDone

LoopNext ==
    \/ LoopSteps(PageCounts, PageBodies)
    \/ Publish

Next ==
    \/ StartupNext(StackListings)
    \/ LoopNext

Spec ==
    Init /\ [][Next]_vars

FairSpec ==
    Spec /\ WF_vars(LoopNext)

ServeLoopNext ==
    \/ CycleStart
    \/ RetriesExhausted
    \/ DiscoverIssue
    \/ DiscoverOk(ServePageCounts)
    \/ DiscoverTransportErr
    \/ DiscoverAuthErr
    \/ ReloginOk
    \/ ReloginFail
    \/ RetrySleepDone
    \/ Submit
    \/ FetchOk(ServeBodies)
    \/ FetchErr
    \/ JoinOk
    \/ JoinErr
    \/ AggregateApp
    \/ NextResponse
    \/ PublishAcquire
    \/ PublishRecorded
    \/ PublishRelease
    \/ IntervalSleepDone
    \/ FailSleepDone

ScrapeNext(t) ==
    \/ ScrapeBegin(t)
    \/ ScrapeAcquire(t)
    \/ ScrapeCopy(t)
    \/ ScrapeSet(t)
    \/ ScrapeRespond(t)

ServeNext ==
    \/ StartupNext(ServeListings)
    \/ ServeLoopNext
    \/ \E t \in Scrapers : ScrapeNext(t)

ServeSpec ==
    Init /\ [][ServeNext]_vars

\* Start-up and a refresh loop whose discovery succeeds at once, against
\* every page the upstream API can give; no scrape request arrives.
CrawlNext ==
    \/ StartupNext(StackListings)
    \/ CycleStart
    \/ DiscoverIssue
    \/ DiscoverOk(PageCounts)
    \/ Submit
    \/ FetchOk(PageBodies)
    \/ FetchErr
    \/ JoinOk
    \/ JoinErr
    \/ AggregateApp
    \/ AggregateMalformed
    \/ NextResponse
    \/ PublishAcquire
    \/ Publish
    \/ PublishRelease
    \/ IntervalSleepDone
    \/ FailSleepDone

CrawlSpec ==
    Init /\ [][CrawlNext]_vars

FairServe ==
    /\ ServeSpec
    /\ WF_vars(ServeLoopNext)
    /\ \A t \in Scrapers : WF_vars(ScrapeCopy(t)) /\ SF_vars(ScrapeAcquire(t))

\* Start-up, a refresh loop whose discovery succeeds and whose pages may
\* fail, and concurrent scrape requests, the history of the gauge kept.
TracedLoopNext ==
    \/ CycleStart
    \/ DiscoverIssue
    \/ DiscoverOk(ServePageCounts)
    \/ Submit
    \/ FetchOk(ServeBodies)
    \/ FetchErr
    \/ JoinOk
    \/ JoinErr
    \/ AggregateApp
    \/ NextResponse
    \/ PublishAcquire
    \/ PublishTraced
    \/ PublishRelease
    \/ IntervalSleepDone
    \/ FailSleepDone

TracedScrapeNext(t) ==
    \/ ScrapeBegin(t)
    \/ ScrapeAcquire(t)
    \/ ScrapeCopyTraced(t)
    \/ ScrapeSetTraced(t)
    \/ ScrapeRespondTraced(t)

TracedNext ==
    \/ StartupNext(ServeListings)
    \/ TracedLoopNext
    \/ \E t \in Scrapers : TracedScrapeNext(t)

TracedSpec ==
    Init /\ [][TracedNext]_vars

(***************************************************************************)
(* Claims.                                                                 *)
(***************************************************************************)

\* C1: the Snapshot and every copy a scrape took under the lock hold either
\* nothing (the initial mapping) or the aggregate of a cycle that fetched
\* and counted all of its pages; an aggregate under construction is never
\* what a reader sees.
C1_SnapshotIsComplete ==
    /\ Items(stack_cache) \in completed \cup {{}}
    /\ \A t \in Scrapers : Items(local_cache[t]) \in completed \cup {{}}

\* C1 witness: a scrape holds a published aggregate while the loop is half
\* way through building another one that was never published.
C1_Witness ==
    \E t \in Scrapers :
        /\ scrape_pc[t] = "set"
        /\ local_cache[t] # << >>
        /\ loop_pc = "aggregate"
        /\ resp_i <= Len(responses)
        /\ stack_counts # << >>
        /\ Items(stack_counts) \notin completed

\* C2 (as claimed): what a scrape returns shows, for every stack of the copy
\* that scrape took, the count of that copy.
C2_ResponseShowsOwnCopy ==
    \A t \in Scrapers :
        AtRender(t) => Items(local_cache[t]) \subseteq Rendered

SnapshotAsAtCycleStart ==
    loop_pc \in {"discover", "discover_wait", "relogin", "retry_sleep", "submit",
                 "join", "aggregate", "assign", "fail_sleep"}
        => stack_cache = cache_at_start

\* The Snapshot is written at line 200 only, by a cycle that fetched every
\* page and went through all of them.
SnapshotWrittenByPublishOnly ==
    stack_cache' # stack_cache =>
        /\ loop_pc = "assign"
        /\ Len(responses) = apps_count
        /\ resp_i > Len(responses)

\* C4: a cycle that fails at any step leaves the Snapshot as it was when the
\* cycle began, and the Snapshot changes only in the publish step of a cycle
\* that completed discovery, fetch and aggregation.
C4_FailedCycleKeepsSnapshot ==
    /\ []SnapshotAsAtCycleStart
    /\ [][SnapshotWrittenByPublishOnly]_vars

\* C4 witness: a cycle failed with a partly built aggregate in hand while an
\* earlier aggregate is published.
C4_Witness ==
    /\ loop_pc = "fail_sleep"
    /\ stack_cache # << >>
    /\ stack_counts # << >>
    /\ stack_counts # stack_cache

\* C5 (as claimed): no cycle issues more than 5 discovery requests.
C5_AtMostFiveRequests ==
    reqs <= MAX_RETRIES

\* C6: when a discovery request is in flight, get_token was called exactly
\* once since the previous attempt if that attempt ended in a 401 or 403,
\* and not at all if it ended in a transport error, another HTTP status or
\* another exception.
C6_OneLoginPerAuthFailure ==
    loop_pc = "discover_wait" =>
        /\ prev_outcome = "auth" => logins_since = 1
        /\ prev_outcome \in {"transport", "http", "other"} => logins_since = 0

\* C6 witness: a retry is in flight after a 401/403 and one login.
C6_Witness ==
    /\ loop_pc = "discover_wait"
    /\ prev_outcome = "auth"
    /\ logins_since = 1
    /\ retries >= 1
    /\ CF_AUTH_TOKEN = 2

\* C7 (as claimed): once the refresh loop runs, a new cycle starts again
\* and again.
C7_NewCycleInfinitelyOften ==
    []<>(loop_pc \in {"not_started", "cycle_start"})

\* C8: with filtering enabled every key of the Snapshot and every label of
\* the gauge, hence of any response, is in the list loaded at start-up.
C8_OnlyValidLabels ==
    ~INCLUDE_INVALID_STACKS =>
        /\ Keys(stack_cache) \subseteq Range(valid_stacks)
        /\ Labels(Rendered) \subseteq Range(valid_stacks)
        /\ \A t \in Scrapers : Keys(local_cache[t]) \subseteq Range(valid_stacks)

\* C8 witness: a page with an invalid stack was counted and published, and
\* a scrape is about to answer from it.
C8_Witness ==
    \E t \in Scrapers :
        /\ ~INCLUDE_INVALID_STACKS
        /\ AtRender(t)
        /\ loop_pc = "interval_sleep"
        /\ "bogus-stack" \in Range(responses[1])
        /\ local_cache[t] = stack_cache
        /\ Labels(Rendered) = {"cflinuxfs4"}

\* C9: after the publish step the Snapshot maps every stack name to the
\* number of records, over all pages, that carry it and pass the filter,
\* and has no other key; for the pages of the scenario it is
\* {cflinuxfs4: 3, windows2016: 1}, plus bogus-stack: 1 with inclusion.
C9_PublishedAggregate ==
    loop_pc \in {"release", "interval_sleep"} =>
        /\ Len(responses) = apps_count
        /\ Items(stack_cache) = CountAll(responses, INCLUDE_INVALID_STACKS, valid_stacks)
        /\ Cardinality(Keys(stack_cache)) = Len(stack_cache)
        /\ responses = << BodyA, BodyB >> =>
              /\ (~INCLUDE_INVALID_STACKS /\ Range(valid_stacks) = {"cflinuxfs4", "windows2016"})
                    => Items(stack_cache) = {<< "cflinuxfs4", 3 >>, << "windows2016", 1 >>}
              /\ INCLUDE_INVALID_STACKS
                    => Items(stack_cache) = {<< "cflinuxfs4", 3 >>, << "windows2016", 1 >>,
                                             << "bogus-stack", 1 >>}

\* C9 witness: the scenario was crawled and published with filtering on.
C9_Witness ==
    /\ loop_pc = "interval_sleep"
    /\ responses = << BodyA, BodyB >>
    /\ ~INCLUDE_INVALID_STACKS
    /\ Range(valid_stacks) = {"cflinuxfs4", "windows2016"}
    /\ stack_cache = << << "cflinuxfs4", 3 >>, << "windows2016", 1 >> >>

\* The lock is held by the loop only around line 200 and by a scrape only
\* around line 215.
LockDiscipline ==
    /\ cache_lock = "loop" <=> loop_pc \in {"assign", "release"}
    /\ \A t \in Scrapers : cache_lock = t <=> scrape_pc[t] = "copy"

\* C10: the loop never holds the lock during a request or a sleep, a scrape
\* holds it only to copy, and a scrape that asks for the lock gets it.
C10_LockNeverBlocks ==
    /\ []LockDiscipline
    /\ \A t \in Scrapers : (scrape_pc[t] = "acquire") ~> (cache_lock = t)

\* C10 witness: both scrapes wait for the lock while the loop holds it.
C10_Witness ==
    /\ cache_lock = "loop"
    /\ \A t \in Scrapers : scrape_pc[t] = "acquire"

\* C11 (as claimed): a label set to a count keeps it until a request with
\* a later copy of the Snapshot sets the label again; no request holding an
\* older copy than the one the label was set from ever changes its value.
C11_ValueKeptUntilLaterCopy ==
    overwritten = {}

\* The steps of start-up follow one another in the order of lines 224-232,
\* the listing being loaded exactly when filtering is enabled, and a process
\* that exited stays so.
StartupInOrder ==
    main_pc' # main_pc =>
        \/ main_pc = "validate" /\ main_pc' \in {"get_uaa", "exited"}
        \/ main_pc = "get_uaa" /\ main_pc' \in {"get_token", "exited"}
        \/ main_pc = "get_token" /\ main_pc' = "exited"
        \/ main_pc = "get_token" /\ main_pc' = "grab" /\ ~INCLUDE_INVALID_STACKS
        \/ main_pc = "get_token" /\ main_pc' = "start" /\ INCLUDE_INVALID_STACKS
        \/ main_pc = "grab" /\ main_pc' \in {"start", "exited"}
        \/ main_pc = "start" /\ main_pc' = "serving"

\* Nothing runs and nothing is served before start-up is over, and start-up
\* is over only with a token and, when filtering, with the listing loaded.
StartedOnlyAfterStartup ==
    /\ main_pc # "serving" =>
          /\ loop_pc = "not_started"
          /\ \A t \in Scrapers : scrape_pc[t] = "idle"
          /\ stack_cache = << >>
          /\ stack_gauge = {}
    /\ main_pc \in {"grab", "start", "serving"} => CF_AUTH_TOKEN \in Tokens
    /\ main_pc = "grab" => ~INCLUDE_INVALID_STACKS
    /\ main_pc \in {"start", "serving"} =>
          IF INCLUDE_INVALID_STACKS
          THEN valid_stacks = << >>
          ELSE valid_stacks \in ServeListings

\* C12: the refresh loop and the endpoint start only after validation,
\* endpoint discovery, the initial login and, when filtering is enabled, the
\* loading of the valid stacks succeeded in this order; a failure of any of
\* them ends the process for good, no cycle having run and no scrape having
\* been served.
C12_StartupBeforeServing ==
    /\ []StartedOnlyAfterStartup
    /\ [][StartupInOrder]_vars

\* C12 witness: the listing failed after a successful login and the process
\* is gone.
C12_Witness ==
    /\ main_pc = "exited"
    /\ ~INCLUDE_INVALID_STACKS
    /\ CF_AUTH_TOKEN \in Tokens
    /\ loop_pc = "not_started"

\* A key the data model allows: a string that is not empty.
IsStackName(k) ==
    k \notin {None, "", MalformedApp, NumberStack}

\* C13 (as claimed): every key of the Snapshot is a non-empty string and
\* every value is a non-negative integer.
C13_SnapshotWellTyped ==
    \A p \in Items(stack_cache) :
        IsStackName(p[1]) /\ p[2] \in Nat

\* C14 (as claimed): a request that copied after an aggregate equal to the
\* Snapshot was published again renders what the requests that copied after
\* the first publish of it rendered.
C14_RepublishSameOutput ==
    \A t \in Scrapers :
        (AtRender(t) /\ made_in[t] = 2) => first_out \subseteq {Rendered}

\* C15 (as claimed): a cycle that ends in failure after a failed discovery
\* attempt (a transport error, a 401/403, another HTTP status or another
\* exception) has counted 5 retries.
C15_AbortOnlyAfterFive ==
    (loop_pc = "fail_sleep" /\ prev_outcome \in {"transport", "auth", "http", "other"})
        => retries >= MAX_RETRIES

\* Some page request of the fan-out has failed.
PageFailed ==
    loop_pc = "join" /\ \E p \in DOMAIN futures : futures[p].st = "error"

\* Once a page failed the cycle can only wait for the other pages and end:
\* the failed page is not requested again, no login is made, the token and
\* the Snapshot stay; the sleep that follows leads to a new cycle only, and
\* pages are requested nowhere but at the fan-out of a cycle.
PageFailureStep ==
    /\ PageFailed =>
          /\ loop_pc' \in {"join", "fail_sleep"}
          /\ CF_AUTH_TOKEN' = CF_AUTH_TOKEN
          /\ logins_since' = logins_since
          /\ stack_cache' = stack_cache
          /\ \A p \in DOMAIN futures :
                futures[p].st = "error" => (futures' = << >> \/ futures'[p].st = "error")
    /\ loop_pc = "fail_sleep" =>
          /\ loop_pc' \in {"fail_sleep", "cycle_start"}
          /\ CF_AUTH_TOKEN' = CF_AUTH_TOKEN
          /\ stack_cache' = stack_cache
          /\ futures' = futures
    /\ (\E p \in DOMAIN futures' : futures'[p].st = "running" /\
            (p \notin DOMAIN futures \/ futures[p].st # "running"))
          => loop_pc = "submit"

\* C16: a page request that fails is not retried and causes no login; the
\* cycle ends with nothing published, and pages are requested again only by
\* a later cycle, after the sleep.
C16_PageFailureAbortsCycle ==
    /\ [][PageFailureStep]_vars
    /\ [](PageFailed \/ loop_pc = "fail_sleep" => stack_cache = cache_at_start)

\* C16 witness: of two pages one failed; the cycle is over, an earlier
\* aggregate still published.
C16_Witness ==
    /\ loop_pc = "fail_sleep"
    /\ prev_outcome = "ok"
    /\ apps_count = 2
    /\ responses = << >>
    /\ stack_cache # << >>

\* The token is written by the step in which a login returns, at start-up
\* or after a 401/403, and is left alone by the step in which a login fails.
TokenWrittenByLoginOnly ==
    /\ CF_AUTH_TOKEN' # CF_AUTH_TOKEN =>
          \/ main_pc = "get_token" /\ main_pc' \in {"grab", "start"}
          \/ loop_pc = "relogin" /\ loop_pc' = "retry_sleep"
    /\ (main_pc = "get_token" /\ main_pc' = "exited") => CF_AUTH_TOKEN' = CF_AUTH_TOKEN
    /\ (loop_pc = "relogin" /\ loop_pc' = "fail_sleep") => CF_AUTH_TOKEN' = CF_AUTH_TOKEN

\* C17: the AuthToken changes only when a login succeeds; a login that
\* fails leaves it as it was, and no request, fetch, aggregation, publish or
\* scrape writes it.
C17_TokenChangesOnLoginSuccess ==
    [][TokenWrittenByLoginOnly]_vars

\* C17 witness: a login after a 401/403 failed while a scrape was setting
\* labels, the token of an earlier login still in place.
C17_Witness ==
    /\ loop_pc = "fail_sleep"
    /\ prev_outcome = "auth"
    /\ retries >= 1
    /\ CF_AUTH_TOKEN = 2
    /\ \E t \in Scrapers : scrape_pc[t] = "set"

\* The sequences that hold the elements of s in some order.
Reorderings(s) ==
    {[i \in DOMAIN s |-> s[f[i]]] : f \in Permutations(DOMAIN s)}

\* The pages of q from page p on, the records of each in some order.
RECURSIVE RecordsReordered(_, _)
RecordsReordered(q, p) ==
    IF p > Len(q)
    THEN {<< >>}
    ELSE {<< x >> \o rest : x \in Reorderings(q[p]), rest \in RecordsReordered(q, p + 1)}

\* The pages in some order, the records of each page in some order.
Rearrangements(pages) ==
    UNION {RecordsReordered(q, 1) : q \in Reorderings(pages)}

\* C18: the aggregate a cycle published is the mapping that aggregating the
\* same pages yields for every order of the pages and of the records within
\* each page, whatever the order in which the fetches completed.
C18_OrderIndependent ==
    loop_pc \in {"release", "interval_sleep"} =>
        \A r \in Rearrangements(responses) :
            Items(AggregatePages(<< >>, r, 1, INCLUDE_INVALID_STACKS, valid_stacks))
                = Items(stack_cache)

\* C18 witness: the pages of the scenario arrived the other way round and
\* the published dict holds the same counts in another insertion order.
C18_Witness ==
    /\ loop_pc = "interval_sleep"
    /\ responses = << BodyB, BodyA >>
    /\ ~INCLUDE_INVALID_STACKS
    /\ stack_cache = << << "windows2016", 1 >>, << "cflinuxfs4", 3 >> >>

\* Some page request of the fan-out is in flight.
FetchInFlight ==
    \E p \in DOMAIN futures : Running(p)

\* Page requests are in flight only inside the with block of line 186.
FetchesJoined ==
    FetchInFlight => loop_pc = "join"

\* C19: while a page request is in flight the AuthToken is not written, and
\* none is in flight any more when the cycle, completed or aborted, sleeps
\* and when the next cycle issues its requests.
C19_FanOutJoinedBeforeNextCycle ==
    /\ []FetchesJoined
    /\ [][FetchInFlight => CF_AUTH_TOKEN' = CF_AUTH_TOKEN]_vars

\* C19 witness: one page failed while another page is still in flight.
C19_Witness ==
    /\ loop_pc = "join"
    /\ \E p \in DOMAIN futures : futures[p].st = "error"
    /\ FetchInFlight

====
